---- MODULE Spec2Model ----
(***************************************************************************)
(* A model of examples/claude_agent.go: the Claude client (cost            *)
(* calculation, CreateMessage), the agent (Execute, parseResult) and the   *)
(* HTTP surface (main, the four handlers).                                 *)
(*                                                                         *)
(* Text is modelled as a sequence of characters (strings), so that         *)
(* bytes.Contains, bytes.Split, bytes.TrimSpace and encoding/json work on  *)
(* characters as the Go code does.                                         *)
(***************************************************************************)
EXTENDS Integers, Sequences, FiniteSets, TLC

(***************************************************************************)
(* Bytes helpers (package bytes)                                           *)
(***************************************************************************)

\* The characters of a few fixed strings of the program.
\* BACKTICK stands for the character U+0060, which a TLA+ string cannot hold.
BACKTICK == "BACKTICK"
FENCE == <<BACKTICK, BACKTICK, BACKTICK>>
JSONFENCE == FENCE \o <<"j", "s", "o", "n">>
QUOTE == "\""
BACKSLASH == "\\"

\* unicode.IsSpace restricted to the characters TLA+ can write.
AsciiSpace == {" ", "\t", "\n", "\r", "\f"}

\* The white space encoding/json skips between tokens (scanner.go isSpace).
JsonSpace == {" ", "\t", "\n", "\r"}

HasPrefixAt(s, i, sep) ==
    /\ i >= 1
    /\ i + Len(sep) - 1 <= Len(s)
    /\ SubSeq(s, i, i + Len(sep) - 1) = sep

\* bytes.Index, 1-based; 0 when sep does not occur in s.
Index(s, sep) ==
    LET hits == {i \in 1..Len(s) : HasPrefixAt(s, i, sep)}
    IN  IF hits = {} THEN 0 ELSE CHOOSE i \in hits : \A j \in hits : i <= j

\* bytes.Contains
Contains(s, sep) == Index(s, sep) # 0

\* bytes.Split(s, sep) for a non-empty sep: the pieces between the
\* non-overlapping occurrences of sep, found left to right.
RECURSIVE Split(_, _)
Split(s, sep) ==
    LET i == Index(s, sep)
    IN  IF i = 0
        THEN <<s>>
        ELSE <<SubSeq(s, 1, i - 1)>> \o Split(SubSeq(s, i + Len(sep), Len(s)), sep)

RECURSIVE TrimLeft(_)
TrimLeft(s) ==
    IF s # <<>> /\ Head(s) \in AsciiSpace THEN TrimLeft(Tail(s)) ELSE s

RECURSIVE TrimRight(_)
TrimRight(s) ==
    IF s # <<>> /\ s[Len(s)] \in AsciiSpace
    THEN TrimRight(SubSeq(s, 1, Len(s) - 1))
    ELSE s

\* bytes.TrimSpace
TrimSpace(s) == TrimRight(TrimLeft(s))

(***************************************************************************)
(* encoding/json: values, the parser, Unmarshal and Decoder.Decode         *)
(***************************************************************************)

\* A JSON value: t is its kind, s the characters of a string or a number,
\* m the members of an object ([k, v]) or the elements of an array.
JNull == [t |-> "null", s |-> <<>>, m |-> <<>>]
JBool(b) == [t |-> "bool", s |-> b, m |-> <<>>]
JStr(s) == [t |-> "str", s |-> s, m |-> <<>>]
JNum(s) == [t |-> "num", s |-> s, m |-> <<>>]
JObj(m) == [t |-> "obj", s |-> <<>>, m |-> m]
JArr(m) == [t |-> "arr", s |-> <<>>, m |-> m]
\* A Go map[string]interface{} that is nil: json encodes it as null.
NilMap == [t |-> "nilmap", s |-> <<>>, m |-> <<>>]

Digits == {"0", "1", "2", "3", "4", "5", "6", "7", "8", "9"}
EscChars == {QUOTE, BACKSLASH, "/", "b", "f", "n", "r", "t"}
ControlChars == {"\t", "\n", "\r", "\f"}

ParseFail == [ok |-> FALSE, v |-> JNull, next |-> 0]
ParseOk(v, next) == [ok |-> TRUE, v |-> v, next |-> next]

RECURSIVE SkipSpace(_, _)
SkipSpace(s, i) ==
    IF i <= Len(s) /\ s[i] \in JsonSpace THEN SkipSpace(s, i + 1) ELSE i

\* The index of the quote that closes the string whose first character is
\* at i; 0 when the string is unterminated or holds an invalid character.
RECURSIVE ScanString(_, _)
ScanString(s, i) ==
    IF i > Len(s) THEN 0
    ELSE IF s[i] = QUOTE THEN i
    ELSE IF s[i] = BACKSLASH
         THEN IF i + 1 <= Len(s) /\ s[i + 1] \in EscChars
              THEN ScanString(s, i + 2)
              ELSE 0
    ELSE IF s[i] \in ControlChars THEN 0
    ELSE ScanString(s, i + 1)

RECURSIVE ScanDigits(_, _)
ScanDigits(s, i) ==
    IF i <= Len(s) /\ s[i] \in Digits THEN ScanDigits(s, i + 1) ELSE i

\* A number -?(0|[1-9][0-9]*)(.[0-9]+)? starting at i: the index after it,
\* 0 when there is none.
ScanNumber(s, i) ==
    LET a == IF i <= Len(s) /\ s[i] = "-" THEN i + 1 ELSE i
        b == IF a <= Len(s) /\ s[a] = "0" THEN a + 1 ELSE ScanDigits(s, a)
        c == IF b <= Len(s) /\ s[b] = "." THEN ScanDigits(s, b + 1) ELSE b
    IN  IF b = a THEN 0
        ELSE IF c # b /\ c = b + 1 THEN 0
        ELSE c

\* A map assignment m[k] = v: a later duplicate key replaces the earlier.
SetMember(m, k, v) ==
    IF \E j \in 1..Len(m) : m[j].k = k
    THEN [j \in 1..Len(m) |-> IF m[j].k = k THEN [k |-> k, v |-> v] ELSE m[j]]
    ELSE Append(m, [k |-> k, v |-> v])

RECURSIVE ParseValue(_, _)
RECURSIVE ParseMembers(_, _, _)
RECURSIVE ParseElements(_, _, _)

\* The members of an object from the key at i on; acc holds those read.
ParseMembers(s, i, acc) ==
    IF i > Len(s) \/ s[i] # QUOTE THEN ParseFail
    ELSE
      LET q == ScanString(s, i + 1)
          c == SkipSpace(s, q + 1)
      IN  IF q = 0 \/ c > Len(s) \/ s[c] # ":" THEN ParseFail
          ELSE
            LET r == ParseValue(s, SkipSpace(s, c + 1))
                e == SkipSpace(s, r.next)
                acc2 == SetMember(acc, SubSeq(s, i + 1, q - 1), r.v)
            IN  IF ~r.ok \/ e > Len(s) THEN ParseFail
                ELSE IF s[e] = "}" THEN ParseOk(JObj(acc2), e + 1)
                ELSE IF s[e] = "," THEN ParseMembers(s, SkipSpace(s, e + 1), acc2)
                ELSE ParseFail

\* The elements of an array from the value at i on.
ParseElements(s, i, acc) ==
    LET r == ParseValue(s, i)
        e == SkipSpace(s, r.next)
        acc2 == Append(acc, [k |-> <<>>, v |-> r.v])
    IN  IF ~r.ok \/ e > Len(s) THEN ParseFail
        ELSE IF s[e] = "]" THEN ParseOk(JArr(acc2), e + 1)
        ELSE IF s[e] = "," THEN ParseElements(s, SkipSpace(s, e + 1), acc2)
        ELSE ParseFail

\* The JSON value that starts at i (i is past any white space).
ParseValue(s, i) ==
    IF i > Len(s) THEN ParseFail
    ELSE IF s[i] = "{"
         THEN LET j == SkipSpace(s, i + 1)
              IN  IF j <= Len(s) /\ s[j] = "}"
                  THEN ParseOk(JObj(<<>>), j + 1)
                  ELSE ParseMembers(s, j, <<>>)
    ELSE IF s[i] = "["
         THEN LET j == SkipSpace(s, i + 1)
              IN  IF j <= Len(s) /\ s[j] = "]"
                  THEN ParseOk(JArr(<<>>), j + 1)
                  ELSE ParseElements(s, j, <<>>)
    ELSE IF s[i] = QUOTE
         THEN LET q == ScanString(s, i + 1)
              IN  IF q = 0 THEN ParseFail
                  ELSE ParseOk(JStr(SubSeq(s, i + 1, q - 1)), q + 1)
    ELSE IF s[i] \in Digits \cup {"-"}
         THEN LET e == ScanNumber(s, i)
              IN  IF e = 0 THEN ParseFail
                  ELSE ParseOk(JNum(SubSeq(s, i, e - 1)), e)
    ELSE IF HasPrefixAt(s, i, <<"n", "u", "l", "l">>) THEN ParseOk(JNull, i + 4)
    ELSE IF HasPrefixAt(s, i, <<"t", "r", "u", "e">>)
         THEN ParseOk(JBool(<<"t">>), i + 4)
    ELSE IF HasPrefixAt(s, i, <<"f", "a", "l", "s", "e">>)
         THEN ParseOk(JBool(<<"f">>), i + 5)
    ELSE ParseFail

\* json.Valid / checkValid: the whole of s is one JSON value, with white
\* space allowed around it.
ParseDocument(s) ==
    LET r == ParseValue(s, SkipSpace(s, 1))
    IN  IF r.ok /\ SkipSpace(s, r.next) = Len(s) + 1 THEN r ELSE ParseFail

\* json.Unmarshal(data, &m) for a nil m of type map[string]interface{}:
\* a syntax error or a value that is neither an object nor null is an
\* error; null leaves m nil and is no error.
UnmarshalMap(s) ==
    LET r == ParseDocument(s)
    IN  IF ~r.ok THEN [err |-> TRUE, v |-> NilMap]
        ELSE IF r.v.t = "obj" THEN [err |-> FALSE, v |-> r.v]
        ELSE IF r.v.t = "null" THEN [err |-> FALSE, v |-> NilMap]
        ELSE [err |-> TRUE, v |-> NilMap]

(***************************************************************************)
(* float64 arithmetic (IEEE 754 binary64, round to nearest even)           *)
(*                                                                         *)
(* A natural number is a sequence of limbs in base 2^15, least significant *)
(* first, with no leading zero limb. A float is m * 2^e with m < 2^53      *)
(* after rounding.                                                         *)
(***************************************************************************)

LimbBase == 32768
LimbBits == 15
MantissaBits == 53

RECURSIVE Strip(_)
Strip(x) ==
    IF x # <<>> /\ x[Len(x)] = 0 THEN Strip(SubSeq(x, 1, Len(x) - 1)) ELSE x

RECURSIVE BigOfInt(_)
BigOfInt(n) ==
    IF n = 0 THEN <<>> ELSE <<n % LimbBase>> \o BigOfInt(n \div LimbBase)

RECURSIVE IntOfBig(_)
IntOfBig(x) ==
    IF x = <<>> THEN 0 ELSE Head(x) + LimbBase * IntOfBig(Tail(x))

RECURSIVE MulCarry(_, _, _)
MulCarry(x, k, carry) ==
    IF x = <<>>
    THEN BigOfInt(carry)
    ELSE LET p == Head(x) * k + carry
         IN  <<p % LimbBase>> \o MulCarry(Tail(x), k, p \div LimbBase)

\* x * k for 0 <= k <= 2^15
MulSmall(x, k) == Strip(MulCarry(x, k, 0))

RECURSIVE AddCarry(_, _, _)
AddCarry(x, y, carry) ==
    IF x = <<>> /\ y = <<>>
    THEN BigOfInt(carry)
    ELSE LET a == IF x = <<>> THEN 0 ELSE Head(x)
             b == IF y = <<>> THEN 0 ELSE Head(y)
             t == a + b + carry
         IN  <<t % LimbBase>>
               \o AddCarry(IF x = <<>> THEN x ELSE Tail(x),
                           IF y = <<>> THEN y ELSE Tail(y),
                           t \div LimbBase)

AddBig(x, y) == Strip(AddCarry(x, y, 0))

\* Long division by 1 <= d <= 2^15, from the most significant limb down:
\* the quotient limbs (least significant first) and the remainder.
RECURSIVE DivRem(_, _)
DivRem(x, d) ==
    IF x = <<>>
    THEN [q |-> <<>>, r |-> 0]
    ELSE LET hi == DivRem(Tail(x), d)
             t == hi.r * LimbBase + Head(x)
         IN  [q |-> <<t \div d>> \o hi.q, r |-> t % d]

IsOdd(x) == x # <<>> /\ x[1] % 2 = 1

RECURSIVE Pow2(_)
Pow2(k) == IF k = 0 THEN 1 ELSE 2 * Pow2(k - 1)

\* x * 2^n: n \div 15 whole limbs, then the remaining bits.
ShiftLeft(x, n) ==
    IF x = <<>> THEN x
    ELSE [j \in 1..(n \div LimbBits) |-> 0] \o MulSmall(x, Pow2(n % LimbBits))

\* floor(x / 2^n)
ShiftRight(x, n) ==
    IF n \div LimbBits >= Len(x) THEN <<>>
    ELSE Strip(DivRem(SubSeq(x, (n \div LimbBits) + 1, Len(x)),
                      Pow2(n % LimbBits)).q)

RECURSIVE IntBits(_)
IntBits(n) == IF n = 0 THEN 0 ELSE 1 + IntBits(n \div 2)

BitLen(x) ==
    IF x = <<>> THEN 0 ELSE (Len(x) - 1) * LimbBits + IntBits(x[Len(x)])

\* Round m * 2^e (plus a positive amount below one unit of m when sticky)
\* to a 53-bit mantissa, ties to even: guard is the highest bit dropped,
\* and the value is inexact below it when a lower dropped bit is set.
RoundNearestEven(m, e, sticky) ==
    LET n == BitLen(m) - MantissaBits
    IN  IF n <= 0
        THEN [m |-> m, e |-> e]
        ELSE LET q == ShiftRight(m, n)
                 g == ShiftRight(m, n - 1)
                 guard == IsOdd(g)
                 inexact == sticky \/ ShiftLeft(g, n - 1) # m
             IN  IF guard /\ (inexact \/ IsOdd(q))
                 THEN [m |-> AddBig(q, <<1>>), e |-> e + n]
                 ELSE [m |-> q, e |-> e + n]

Float(m, e) == RoundNearestEven(m, e, FALSE)

\* The exact product of the float a and the integer k, not yet rounded.
Product(a, k) == [m |-> MulSmall(a.m, k), e |-> a.e]

\* The exact sum of two such values, not yet rounded.
Sum(a, b) ==
    LET e == IF a.e < b.e THEN a.e ELSE b.e
    IN  [m |-> AddBig(ShiftLeft(a.m, a.e - e), ShiftLeft(b.m, b.e - e)),
         e |-> e]

\* The float64 nearest to an exact value.
Round(x) == Float(x.m, x.e)

\* int(a): truncation toward zero of a float a >= 0
IntOfFloat(a) ==
    IF a.e >= 0
    THEN IntOfBig(ShiftLeft(a.m, a.e))
    ELSE IntOfBig(ShiftRight(a.m, 0 - a.e))

\* The float64 constant n / 1_000_000: the exact quotient, rounded once.
\* The quotient is taken with GuardLimbs extra limbs of precision.
GuardLimbs == 8
PerMillion(n) ==
    LET x == [j \in 1..GuardLimbs |-> 0] \o BigOfInt(n)
        a == DivRem(x, 1000)
        b == DivRem(Strip(a.q), 1000)
    IN  RoundNearestEven(Strip(b.q), 0 - GuardLimbs * LimbBits,
                         a.r # 0 \/ b.r # 0)

(***************************************************************************)
(* ClaudeClient                                                            *)
(***************************************************************************)

model == "claude-sonnet-4-5-20250929"
inputCostPerToken == PerMillion(3)
outputCostPerToken == PerMillion(15)

\* The Go compiler may fuse x*y + z into one operation that rounds once
\* (it does on arm64, not on amd64): of the two products added in
\* CalculateCost, a build fuses none, the input one or the output one.
FusionModes == {"none", "input", "output"}

\* CalculateCost in ten-thousandths of a dollar: the integer k of
\* float64(int((inputCost+outputCost)*10000)) / 10000, the float64 nearest
\* to k / 10000. float64(inputTokens) is exact.
CalculateCost(inputTokens, outputTokens, fusion) ==
    LET inputCost == Product(inputCostPerToken, inputTokens)
        outputCost == Product(outputCostPerToken, outputTokens)
        sum == IF fusion = "input"
               THEN Round(Sum(inputCost, Round(outputCost)))
               ELSE IF fusion = "output"
               THEN Round(Sum(Round(inputCost), outputCost))
               ELSE Round(Sum(Round(inputCost), Round(outputCost)))
    IN  IntOfFloat(Round(Product(sum, 10000)))

(***************************************************************************)
(* GoAgent.parseResult                                                     *)
(***************************************************************************)

\* cleanText looking for a plain fence before a JSON-marked one.
cleanTextPlainFirst(text) ==
    IF Contains(text, FENCE)
    THEN LET parts == Split(text, FENCE)
         IN  IF Len(parts) > 2 THEN TrimSpace(parts[2]) ELSE text
    ELSE text

\* The text parseResult hands to json.Unmarshal.
cleanText(text) ==
    IF Contains(text, JSONFENCE)
    THEN LET parts == Split(text, JSONFENCE)
         IN  IF Len(parts) > 1
             THEN LET parts2 == Split(parts[2], FENCE)
                  IN  IF Len(parts2) > 0 THEN TrimSpace(parts2[1]) ELSE text
             ELSE text
    ELSE IF Contains(text, FENCE)
    THEN LET parts == Split(text, FENCE)
         IN  IF Len(parts) > 2 THEN TrimSpace(parts[2]) ELSE text
    ELSE text

\* The fallback value map[string]string{"text": text}.
TextResult(text) == JObj(<<[k |-> <<"t", "e", "x", "t">>, v |-> JStr(text)]>>)

parseResult(text) ==
    LET u == UnmarshalMap(cleanText(text))
    IN  IF ~u.err THEN u.v ELSE TextResult(text)

\* The characters of a few keys and literals.
K_input == <<"i", "n", "p", "u", "t">>
K_prompt == <<"p", "r", "o", "m", "p", "t">>
K_context == <<"c", "o", "n", "t", "e", "x", "t">>
K_metadata == <<"m", "e", "t", "a", "d", "a", "t", "a">>
K_requestId == <<"r", "e", "q", "u", "e", "s", "t", "I", "d">>
K_userId == <<"u", "s", "e", "r", "I", "d">>
K_timeout == <<"t", "i", "m", "e", "o", "u", "t">>
Quoted(s) == <<QUOTE>> \o s \o <<QUOTE>>

(***************************************************************************)
(* Decoding the request: json.NewDecoder(r.Body).Decode(&req)              *)
(***************************************************************************)

HasMember(v, k) == \E j \in 1..Len(v.m) : v.m[j].k = k
Member(v, k) == (CHOOSE mem \in {v.m[j] : j \in 1..Len(v.m)} : mem.k = k).v

\* v can be stored in a Go struct field of the given kind; null is a no-op
\* for every kind of field.
FitsField(v, kind) ==
    \/ v.t = "null"
    \/ kind = "string" /\ v.t = "str"
    \/ kind = "int" /\ v.t = "num" /\ ~(\E j \in 1..Len(v.s) : v.s[j] = ".")
    \/ kind = "map" /\ v.t = "obj"
    \/ kind = "struct" /\ v.t = "obj"

\* Every member of the object v that names a field of the struct fits it;
\* members that name no field are ignored.
FitsStruct(v, fields) ==
    v.t = "obj" =>
        \A j \in 1..Len(v.m) :
            \A f \in fields : v.m[j].k = f[1] => FitsField(v.m[j].v, f[2])

FieldOr(v, k, zero) ==
    IF v.t = "obj" /\ HasMember(v, k) /\ Member(v, k).t # "null"
    THEN Member(v, k)
    ELSE zero

\* The zero ExecuteRequest: an empty prompt and a nil context.
ZeroRequest == [Prompt |-> <<>>, Context |-> <<>>]

\* Decode without the check of the scanner's verdict: a malformed body
\* decodes to the zero request.
DecodeUnchecked(body) ==
    LET i == SkipSpace(body, 1)
    IN  IF i > Len(body)
        THEN [err |-> <<"EOF">>, req |-> ZeroRequest]
        ELSE [err |-> <<>>, req |-> ZeroRequest]

\* Decode reads the first JSON value of the body and ignores what follows
\* it. An empty body is io.EOF, a malformed value a syntax error, and a
\* value of the wrong JSON type for its field an UnmarshalTypeError.
Decode(body) ==
    LET i == SkipSpace(body, 1)
        r == ParseValue(body, i)
        input == FieldOr(r.v, K_input, JObj(<<>>))
        metadata == FieldOr(r.v, K_metadata, JObj(<<>>))
        fits ==
            /\ FitsField(r.v, "struct")
            /\ FitsStruct(r.v, {<<K_input, "struct">>, <<K_metadata, "struct">>})
            /\ FitsStruct(input, {<<K_prompt, "string">>, <<K_context, "map">>})
            /\ FitsStruct(metadata, {<<K_requestId, "string">>,
                                     <<K_userId, "string">>,
                                     <<K_timeout, "int">>})
    IN  IF i > Len(body)
        THEN [err |-> <<"EOF">>, req |-> ZeroRequest]
        ELSE IF ~r.ok
        THEN [err |-> <<"syntax error">>, req |-> ZeroRequest]
        ELSE IF ~fits
        THEN [err |-> <<"json: cannot unmarshal">>, req |-> ZeroRequest]
        ELSE [err |-> <<>>,
              req |-> [Prompt |-> FieldOr(input, K_prompt, JStr(<<>>)).s,
                       Context |-> FieldOr(input, K_context, JObj(<<>>)).m]]

(***************************************************************************)
(* GoAgent: the prompts                                                    *)
(***************************************************************************)

buildSystemPrompt == <<"You are a helpful AI assistant ...">>

\* fmt's %v of a decoded JSON value.
FormatValue(v) ==
    IF v.t \in {"str", "num"} THEN v.s
    ELSE IF v.t = "bool" THEN (IF v.s = <<"t">> THEN <<"true">> ELSE <<"false">>)
    ELSE IF v.t = "null" THEN <<"<nil>">>
    ELSE IF v.t = "obj" THEN <<"map[...]">>
    ELSE <<"[...]">>

RECURSIVE ContextLines(_, _)
ContextLines(context, order) ==
    IF order = <<>> THEN <<>>
    ELSE <<"- ">> \o context[Head(order)].k \o <<": ">>
           \o FormatValue(context[Head(order)].v) \o <<"\n">>
           \o ContextLines(context, Tail(order))

\* The orders in which a range over a map of n entries can visit them.
MapOrders(n) ==
    {o \in [1..n -> 1..n] : \A a, b \in 1..n : a # b => o[a] # o[b]}

\* buildUserMessage, for the order in which the range visits the context.
buildUserMessage(prompt, context, order) ==
    <<"User Query: ">> \o prompt \o <<"\n", "\n">>
      \o (IF Len(context) > 0
          THEN <<"Additional Context:\n">> \o ContextLines(context, order)
          ELSE <<>>)

(***************************************************************************)
(* ClaudeClient.CreateMessage: what the call returns for an outcome of the *)
(* HTTP exchange with the upstream API                                     *)
(***************************************************************************)

StatusOK == 200
StatusBadRequest == 400
StatusMethodNotAllowed == 405
StatusInternalServerError == 500

\* The ClaudeResponse that json.Unmarshal leaves for a body without content
\* and usage.
ZeroClaudeResponse ==
    [Content |-> <<>>, Usage |-> [InputTokens |-> 0, OutputTokens |-> 0]]

\* An outcome is [kind, status, raw, valid, reply]: kind "send" is a failed
\* or timed-out client.Do, "read" a failed io.ReadAll, "http" an answer with
\* a status and a body; raw is the body as text, valid tells whether it
\* unmarshals into a ClaudeResponse, reply is what it unmarshals to.
CreateMessage(outcome) ==
    IF outcome.kind = "send"
    THEN [err |-> <<"failed to send request: ", "Post: timeout">>,
          resp |-> ZeroClaudeResponse]
    ELSE IF outcome.kind = "read"
    THEN [err |-> <<"failed to read response: ", "unexpected EOF">>,
          resp |-> ZeroClaudeResponse]
    ELSE IF outcome.status # StatusOK
    THEN [err |-> <<"Claude API error (", ToString(outcome.status), "): ">> \o outcome.raw,
          resp |-> ZeroClaudeResponse]
    ELSE IF ~outcome.valid
    THEN [err |-> <<"failed to unmarshal response: ", "invalid character">>,
          resp |-> ZeroClaudeResponse]
    ELSE [err |-> <<>>, resp |-> outcome.reply]

(***************************************************************************)
(* GoAgent.Execute, from the return of CreateMessage on                    *)
(***************************************************************************)

\* Execute taking the text of the last content block, not the first.
ExecuteLastBlock(outcome, elapsed, fusion) ==
    LET cm == CreateMessage(outcome)
        response == cm.resp
        resultText == IF Len(response.Content) > 0
                      THEN response.Content[Len(response.Content)].Text
                      ELSE <<>>
    IN  IF Len(cm.err) > 0
        THEN [err |-> <<"Claude API call failed: ">> \o cm.err,
              data |-> <<>>]
        ELSE [err |-> <<>>,
              data |-> [result |-> parseResult(resultText),
                        cost |-> CalculateCost(response.Usage.InputTokens,
                                               response.Usage.OutputTokens,
                                               fusion),
                        duration |-> elapsed,
                        model |-> model,
                        tokensUsed |-> [input |-> response.Usage.InputTokens,
                                        output |-> response.Usage.OutputTokens]]]

\* The result map of Execute, or its error; elapsed is what
\* time.Since(startTime).Milliseconds() reads.
Execute(outcome, elapsed, fusion) ==
    LET cm == CreateMessage(outcome)
        response == cm.resp
        resultText == IF Len(response.Content) > 0
                      THEN response.Content[1].Text
                      ELSE <<>>
    IN  IF Len(cm.err) > 0
        THEN [err |-> <<"Claude API call failed: ">> \o cm.err,
              data |-> <<>>]
        ELSE [err |-> <<>>,
              data |-> [result |-> parseResult(resultText),
                        cost |-> CalculateCost(response.Usage.InputTokens,
                                               response.Usage.OutputTokens,
                                               fusion),
                        duration |-> elapsed,
                        model |-> model,
                        tokensUsed |-> [input |-> response.Usage.InputTokens,
                                        output |-> response.Usage.OutputTokens]]]

\* The program points Execute passes, in order, up to the upstream call and
\* after it.
ExecuteTraceBefore ==
    <<"time.Now", "buildSystemPrompt", "buildUserMessage", "CreateMessage">>
ExecuteTraceAfter(failed) ==
    IF failed THEN <<"CreateMessage.return">>
    ELSE <<"CreateMessage.return", "parseResult", "time.Since", "CalculateCost">>

(***************************************************************************)
(* Responses                                                               *)
(***************************************************************************)

ContentTypeJSON == "application/json"
ContentTypeText == "text/plain; charset=utf-8"

\* json.Encoder.Encode of a value held in an interface: a nil map is null.
EncodeValue(v) == IF v = NilMap THEN JNull ELSE v

\* http.Error(w, msg, code): a plain-text body.
HttpError(msg, code) ==
    [status |-> code, ctype |-> ContentTypeText, text |-> msg \o <<"\n">>]

\* w.Header().Set("Content-Type", "application/json"), an optional
\* WriteHeader, and json.NewEncoder(w).Encode(body); body is a record of the
\* JSON members written (omitempty members left out).
JsonResponse(code, body) ==
    [status |-> code, ctype |-> ContentTypeJSON, json |-> body]

\* The response of a handler that panicked: net/http recovers and closes
\* the connection without a response.
Aborted == [status |-> 0, ctype |-> "", text |-> <<"panic">>]

NoResponse == [status |-> 0, ctype |-> "", text |-> <<>>]

rootHandler ==
    JsonResponse(StatusOK,
        [name |-> "Mindra Go Agent", version |-> "1.0.0", status |-> "running"])

healthHandler(unix) ==
    JsonResponse(StatusOK, [status |-> "healthy", timestamp |-> unix])

infoHandler ==
    JsonResponse(StatusOK,
        [id |-> "agent-go-template",
         name |-> "Go Template Agent",
         description |-> "Template for building Go-based agents",
         version |-> "1.0.0",
         capabilities |-> <<"Data analysis", "Insight generation",
                            "Custom processing">>,
         pricing |-> [estimatedCost |-> 45, currency |-> "USD"]])

\* A Go pointer: nil, or the address of a value.
NilPtr == [nil |-> TRUE]
Ptr(v) == [nil |-> FALSE, v |-> v]

\* The JSON members of a ResultMetadata: model and tokensUsed are omitempty.
EncodeMetadata(md) ==
    IF md.Model # "" /\ ~md.TokensUsed.nil
    THEN [cost |-> md.Cost, duration |-> md.Duration, model |-> md.Model,
          tokensUsed |-> [input |-> md.TokensUsed.v.Input,
                          output |-> md.TokensUsed.v.Output]]
    ELSE IF md.Model # ""
    THEN [cost |-> md.Cost, duration |-> md.Duration, model |-> md.Model]
    ELSE IF ~md.TokensUsed.nil
    THEN [cost |-> md.Cost, duration |-> md.Duration,
          tokensUsed |-> [input |-> md.TokensUsed.v.Input,
                          output |-> md.TokensUsed.v.Output]]
    ELSE [cost |-> md.Cost, duration |-> md.Duration]

\* The JSON members of an ExecuteResponse: error is omitempty.
EncodeExecuteResponse(r) ==
    IF r.Error.nil
    THEN [result |-> EncodeValue(r.Result),
          metadata |-> EncodeMetadata(r.Metadata)]
    ELSE [result |-> EncodeValue(r.Result),
          metadata |-> EncodeMetadata(r.Metadata),
          error |-> r.Error.v]

\* executeHandler without its w.WriteHeader call on the error path.
ExecuteResponseNoWriteHeader(ex) ==
    IF Len(ex.err) > 0
    THEN JsonResponse(StatusOK,
            EncodeExecuteResponse(
                [Result |-> JNull,
                 Metadata |-> [Cost |-> 0, Duration |-> 0, Model |-> "",
                               TokensUsed |-> NilPtr],
                 Error |-> Ptr(ex.err)]))
    ELSE JsonResponse(StatusOK,
            EncodeExecuteResponse(
                [Result |-> ex.data.result,
                 Metadata |-> [Cost |-> ex.data.cost,
                               Duration |-> ex.data.duration,
                               Model |-> ex.data.model,
                               TokensUsed |->
                                   Ptr([Input |-> ex.data.tokensUsed.input,
                                        Output |-> ex.data.tokensUsed.output])],
                 Error |-> NilPtr]))

\* The part of executeHandler that follows agent.Execute.
ExecuteResponse(ex) ==
    IF Len(ex.err) > 0
    THEN JsonResponse(StatusInternalServerError,
            EncodeExecuteResponse(
                [Result |-> JNull,
                 Metadata |-> [Cost |-> 0, Duration |-> 0, Model |-> "",
                               TokensUsed |-> NilPtr],
                 Error |-> Ptr(ex.err)]))
    ELSE JsonResponse(StatusOK,
            EncodeExecuteResponse(
                [Result |-> ex.data.result,
                 Metadata |-> [Cost |-> ex.data.cost,
                               Duration |-> ex.data.duration,
                               Model |-> ex.data.model,
                               TokensUsed |->
                                   Ptr([Input |-> ex.data.tokensUsed.input,
                                        Output |-> ex.data.tokensUsed.output])],
                 Error |-> NilPtr]))

(***************************************************************************)
(* Bounds and the inputs drawn within them                                 *)
(***************************************************************************)

MaxReqs == 1          \* the connections the server of Spec serves
MaxElapsed == 1       \* the largest reading of time.Since, in milliseconds
MaxUnix == 1          \* the largest reading of time.Now().Unix()
MaxTokens == 20       \* the largest token count given to CalculateCost
MaxPieces == 4        \* the most pieces a text given to parseResult has
MaxConc == 2          \* the most requests handled concurrently

Requests == 1..MaxReqs

Methods == {"GET", "POST"}
Paths == {"/", "/health", "/info", "/execute", "/other"}

T_null == <<"n", "u", "l", "l">>
T_object == <<"{">> \o Quoted(<<"a">>) \o <<":", "1", "}">>
T_open == <<"{">> \o Quoted(<<"a">>) \o <<":", QUOTE>>
T_close == <<QUOTE, "}">>

\* Request bodies: a full request with a context of two entries, null, an
\* object followed by more text, and three bodies Decode rejects (empty,
\* cut short, input of the wrong type).
BodyFull ==
    <<"{">> \o Quoted(K_input) \o <<":", "{">>
      \o Quoted(K_prompt) \o <<":">> \o Quoted(<<"h", "i">>) \o <<",">>
      \o Quoted(K_context) \o <<":", "{">>
      \o Quoted(<<"a">>) \o <<":", "1", ",">>
      \o Quoted(<<"b">>) \o <<":">> \o Quoted(<<"z">>)
      \o <<"}", "}", "}">>
BodyTrailing == <<"{", "}", " ", "x">>
BodyEmpty == <<>>
BodyCut == <<"{">> \o Quoted(K_input) \o <<":">>
BodyWrongType == <<"{">> \o Quoted(K_input) \o <<":", "1", "}">>
Bodies == {BodyFull, T_null, BodyTrailing, BodyEmpty, BodyCut, BodyWrongType}

\* Upstream replies (decoded ClaudeResponse values).
Block(t) == [Type |-> "text", Text |-> t]
Reply(blocks, i, o) ==
    [Content |-> blocks, Usage |-> [InputTokens |-> i, OutputTokens |-> o]]
ReplyTexts ==
    {<<"h", "e", "l", "l", "o">>, T_null, T_object,
     JSONFENCE \o <<"\n">> \o T_object \o <<"\n">> \o FENCE}
Replies ==
    {ZeroClaudeResponse}
      \cup {Reply(<<Block(t)>>, 2, 3) : t \in ReplyTexts}
      \cup {Reply(<<Block(T_object)>>, 5, 19),
            Reply(<<Block(T_object), Block(<<"x">>)>>, 150, 300)}

HttpOutcome(status, raw, valid, reply) ==
    [kind |-> "http", status |-> status, raw |-> raw, valid |-> valid,
     reply |-> reply]
Outcomes ==
    {[kind |-> k, status |-> 0, raw |-> <<>>, valid |-> FALSE,
      reply |-> ZeroClaudeResponse] : k \in {"send", "read"}}
      \cup {HttpOutcome(st, <<"e", "r", "r">>, FALSE, ZeroClaudeResponse) :
              st \in {201, 401, 500}}
      \cup {HttpOutcome(StatusOK, <<"<", "h", "t", "m", "l", ">">>, FALSE,
                        ZeroClaudeResponse)}
      \cup {HttpOutcome(StatusOK, <<"j", "s", "o", "n">>, TRUE, rp) :
              rp \in Replies}
      \cup {HttpOutcome(201, <<"j", "s", "o", "n">>, TRUE,
                        Reply(<<Block(T_object)>>, 2, 3))}

\* The pieces texts for parseResult are made of, and the texts of at most n
\* pieces.
Pieces ==
    {FENCE, JSONFENCE, <<BACKTICK>>, T_object, T_open, T_close, T_null,
     <<" ">>, <<"\f">>, <<"x">>}
RECURSIVE TextsOf(_)
TextsOf(n) ==
    IF n = 0 THEN {<<>>}
    ELSE LET shorter == TextsOf(n - 1)
         IN  shorter \cup {t \o p : t \in shorter, p \in Pieces}

(***************************************************************************)
(* State                                                                   *)
(***************************************************************************)

VARIABLES
    pc,        \* where main is: "start", "register", "listen", "serving", "exited"
    apiKey,    \* the environment's ANTHROPIC_API_KEY
    agent,     \* the global agent: NilPtr, or a pointer to a GoAgent
    routes,    \* the patterns registered with http.HandleFunc, with their handlers
    bound,     \* the listening socket is bound
    exitCode,  \* the status the process exited with; -1 while it runs
    fused,     \* which product of CalculateCost this build fuses
    reqs,      \* the requests in flight, one per connection
    tokens,    \* the token counts given to CalculateCost
    cost,      \* what CalculateCost returned for them; -1 before the call
    text,      \* the text given to parseResult
    parsed     \* what parseResult did with it

mainVars == <<pc, apiKey, agent, routes, bound, exitCode, fused>>
funcVars == <<tokens, cost, text, parsed>>
vars ==
    <<pc, apiKey, agent, routes, bound, exitCode, fused, reqs, tokens, cost,
      text, parsed>>

Idle ==
    [st |-> "idle", method |-> "", path |-> "", body |-> <<>>, calls |-> 0,
     trace |-> <<>>, sent |-> <<>>, outcome |-> NilPtr, resp |-> NoResponse]

NotParsed == [done |-> FALSE, attempt |-> <<>>, result |-> JNull]

InitMain ==
    /\ pc = "start"
    /\ agent = NilPtr
    /\ routes = {}
    /\ bound = FALSE
    /\ exitCode = -1
    /\ reqs = [r \in Requests |-> Idle]

InitFuncs ==
    /\ tokens = <<0, 0>>
    /\ cost = -1
    /\ text = <<>>
    /\ parsed = NotParsed

Init ==
    /\ apiKey \in {<<>>, <<"s", "k">>}
    /\ fused \in FusionModes
    /\ InitMain
    /\ InitFuncs

(***************************************************************************)
(* main                                                                    *)
(***************************************************************************)

\* NewClaudeClient without the check for an empty key.
NewClaudeClientUnchecked(key) ==
    [err |-> <<>>,
     client |-> Ptr([apiKey |-> key, model |-> model,
                     inputCostPerToken |-> inputCostPerToken,
                     outputCostPerToken |-> outputCostPerToken])]

NewClaudeClient(key) ==
    IF key = <<>>
    THEN [err |-> <<"ANTHROPIC_API_KEY environment variable is required">>,
          client |-> NilPtr]
    ELSE [err |-> <<>>,
          client |-> Ptr([apiKey |-> key, model |-> model,
                          inputCostPerToken |-> inputCostPerToken,
                          outputCostPerToken |-> outputCostPerToken])]

NewGoAgent(key) ==
    LET c == NewClaudeClient(key)
    IN  IF Len(c.err) > 0
        THEN [err |-> c.err, agent |-> NilPtr]
        ELSE [err |-> <<>>, agent |-> Ptr([client |-> c.client])]

\* agent, err = NewGoAgent(); log.Fatalf on an error exits with status 1.
MainNewAgent ==
    /\ pc = "start"
    /\ LET a == NewGoAgent(apiKey)
       IN  /\ agent' = a.agent
           /\ IF Len(a.err) > 0
              THEN pc' = "exited" /\ exitCode' = 1
              ELSE pc' = "register" /\ exitCode' = exitCode
    /\ UNCHANGED <<apiKey, routes, bound, fused, reqs, funcVars>>

\* The four http.HandleFunc calls.
MainRegister ==
    /\ pc = "register"
    /\ routes' = routes \cup {<<"/", "rootHandler">>,
                              <<"/health", "healthHandler">>,
                              <<"/info", "infoHandler">>,
                              <<"/execute", "executeHandler">>}
    /\ pc' = "listen"
    /\ UNCHANGED <<apiKey, agent, bound, exitCode, fused, reqs, funcVars>>

\* http.ListenAndServe binds the socket and serves.
MainListen ==
    /\ pc = "listen"
    /\ bound' = TRUE
    /\ pc' = "serving"
    /\ UNCHANGED <<apiKey, agent, routes, exitCode, fused, reqs, funcVars>>

\* http.ListenAndServe fails (the port is taken): log.Fatalf exits.
MainListenFails ==
    /\ pc = "listen"
    /\ pc' = "exited"
    /\ exitCode' = 1
    /\ UNCHANGED <<apiKey, agent, routes, bound, fused, reqs, funcVars>>

(***************************************************************************)
(* The HTTP surface                                                        *)
(***************************************************************************)

\* http.ServeMux: the handler of the pattern equal to the path; the pattern
\* "/" matches every path no other pattern matches.
Mux(rt, path) ==
    IF \E p \in rt : p[1] = path
    THEN (CHOOSE p \in rt : p[1] = path)[2]
    ELSE IF \E p \in rt : p[1] = "/"
    THEN (CHOOSE p \in rt : p[1] = "/")[2]
    ELSE "NotFound"

\* A request arrives on connection r and the mux hands it to handler h.
Arrives(r, method, path, h) ==
    /\ pc = "serving"
    /\ bound
    /\ reqs[r].st = "idle"
    /\ Mux(routes, path) = h

\* Respond with one response buffer shared by the handlers: the response
\* written for r also replaces the response of every other answered request.
RespondShared(r, method, path, body, resp) ==
    reqs' = [q \in DOMAIN reqs |->
                IF q = r
                THEN [Idle EXCEPT !.st = "done", !.method = method,
                                  !.path = path, !.body = body, !.resp = resp]
                ELSE IF reqs[q].st = "done"
                THEN [reqs[q] EXCEPT !.resp = resp]
                ELSE reqs[q]]

Respond(r, method, path, body, resp) ==
    reqs' = [reqs EXCEPT ![r] =
                [Idle EXCEPT !.st = "done", !.method = method, !.path = path,
                             !.body = body, !.resp = resp]]

RootHandler(r) ==
    /\ \E method \in Methods, path \in Paths :
          /\ Arrives(r, method, path, "rootHandler")
          /\ Respond(r, method, path, <<>>, rootHandler)
    /\ UNCHANGED <<mainVars, funcVars>>

HealthHandler(r) ==
    /\ \E method \in Methods, path \in Paths, unix \in 0..MaxUnix :
          /\ Arrives(r, method, path, "healthHandler")
          /\ Respond(r, method, path, <<>>, healthHandler(unix))
    /\ UNCHANGED <<mainVars, funcVars>>

InfoHandler(r) ==
    /\ \E method \in Methods, path \in Paths :
          /\ Arrives(r, method, path, "infoHandler")
          /\ Respond(r, method, path, <<>>, infoHandler)
    /\ UNCHANGED <<mainVars, funcVars>>

\* Decode and Execute on each of the inputs drawn, computed once.
Decoded == [body \in Bodies \cup {<<>>} |-> Decode(body)]
Executed ==
    [outcome \in Outcomes, elapsed \in 0..MaxElapsed, fusion \in FusionModes |->
        Execute(outcome, elapsed, fusion)]

\* executeHandler up to the point where CreateMessage has sent its request:
\* the method check, the decoding of the body, and the start of Execute.
ExecuteHandlerOn(r, bodies) ==
    /\ \E method \in Methods, path \in Paths :
        \E body \in (IF method = "POST" THEN bodies ELSE {<<>>}) :
          /\ Arrives(r, method, path, "executeHandler")
          /\ LET d == Decoded[body]
             IN  IF method # "POST"
                 THEN Respond(r, method, path, body,
                          HttpError(<<"Method not allowed">>,
                                    StatusMethodNotAllowed))
                 ELSE IF Len(d.err) > 0
                 THEN Respond(r, method, path, body,
                          HttpError(<<"Invalid request body: ">> \o d.err,
                                    StatusBadRequest))
                 ELSE IF agent.nil
                 THEN Respond(r, method, path, body, Aborted)
                 ELSE \E order \in MapOrders(Len(d.req.Context)) :
                        reqs' = [reqs EXCEPT ![r] =
                            [Idle EXCEPT
                               !.st = "upstream", !.method = method,
                               !.path = path, !.body = body,
                               !.calls = 1,
                               !.trace = ExecuteTraceBefore,
                               !.sent = <<buildSystemPrompt,
                                          buildUserMessage(d.req.Prompt,
                                              d.req.Context, order)>>]]
    /\ UNCHANGED <<mainVars, funcVars>>

\* executeHandler on any of the request bodies of the model.
ExecuteHandler(r) == ExecuteHandlerOn(r, Bodies)

\* The upstream exchange ends with one of the given outcomes: CreateMessage
\* returns, Execute finishes and executeHandler writes its response.
ExecuteHandlerReturnOn(r, outcomes) ==
    /\ reqs[r].st = "upstream"
    /\ \E outcome \in outcomes, elapsed \in 0..MaxElapsed :
          LET ex == Executed[outcome, elapsed, fused]
          IN  reqs' = [reqs EXCEPT ![r] =
                  [@ EXCEPT !.st = "done",
                            !.outcome = Ptr(outcome),
                            !.trace = @ \o ExecuteTraceAfter(Len(ex.err) > 0),
                            !.resp = ExecuteResponse(ex)]]
    /\ UNCHANGED <<mainVars, funcVars>>

\* The upstream exchange ends with any of the outcomes of the model
\* (ExecuteHandlerReturn). ExecuteHandlerReturnRetrying is the same with an
\* Execute that calls CreateMessage a second time when the first call fails.
ExecuteHandlerReturnRetrying(r) ==
    /\ reqs[r].st = "upstream"
    /\ \E outcome \in Outcomes, elapsed \in 0..MaxElapsed :
          LET ex == Executed[outcome, elapsed, fused]
          IN  IF Len(ex.err) > 0 /\ reqs[r].calls < 2
              THEN reqs' = [reqs EXCEPT ![r] = [@ EXCEPT !.calls = @ + 1]]
              ELSE reqs' = [reqs EXCEPT ![r] =
                      [@ EXCEPT !.st = "done",
                                !.outcome = Ptr(outcome),
                                !.trace = @ \o ExecuteTraceAfter(Len(ex.err) > 0),
                                !.resp = ExecuteResponse(ex)]]
    /\ UNCHANGED <<mainVars, funcVars>>

ExecuteHandlerReturn(r) == ExecuteHandlerReturnOn(r, Outcomes)

\* The response has been sent; the connection takes the next request.
Close(r) ==
    /\ reqs[r].st = "done"
    /\ reqs' = [reqs EXCEPT ![r] = Idle]
    /\ UNCHANGED <<mainVars, funcVars>>

Next ==
    \/ MainNewAgent
    \/ MainRegister
    \/ MainListen
    \/ MainListenFails
    \/ \E r \in Requests :
          \/ RootHandler(r)
          \/ HealthHandler(r)
          \/ InfoHandler(r)
          \/ ExecuteHandler(r)
          \/ ExecuteHandlerReturn(r)
          \/ Close(r)

Spec == Init /\ [][Next]_vars

(***************************************************************************)
(* CalculateCost and parseResult on their own                              *)
(***************************************************************************)

InitCost ==
    /\ apiKey = <<"s", "k">>
    /\ fused \in FusionModes
    /\ InitMain
    /\ tokens \in (0..MaxTokens) \X (0..MaxTokens)
    /\ cost = -1
    /\ text = <<>>
    /\ parsed = NotParsed

CallCalculateCost ==
    /\ cost = -1
    /\ cost' = CalculateCost(tokens[1], tokens[2], fused)
    /\ UNCHANGED <<mainVars, reqs, tokens, text, parsed>>

SpecCost == InitCost /\ [][CallCalculateCost]_vars

InitParse ==
    /\ apiKey = <<"s", "k">>
    /\ fused = "none"
    /\ InitMain
    /\ tokens = <<0, 0>>
    /\ cost = -1
    /\ text \in TextsOf(MaxPieces)
    /\ parsed = NotParsed

CallParseResult ==
    /\ ~parsed.done
    /\ parsed' = [done |-> TRUE, attempt |-> cleanText(text),
                  result |-> parseResult(text)]
    /\ UNCHANGED <<mainVars, reqs, tokens, cost, text>>

SpecParse == InitParse /\ [][CallParseResult]_vars

(***************************************************************************)
(* Requests handled concurrently                                           *)
(***************************************************************************)

\* net/http serves every connection in a goroutine of its own; the steps of
\* the handlers of different goroutines interleave in every order.
Goroutines == 1..MaxConc

\* The inputs of the concurrent requests: a body that decodes and one that
\* does not; an upstream call that times out and one that succeeds.
ConcBodies == {BodyFull, BodyCut}
ConcOutcomes ==
    {[kind |-> "send", status |-> 0, raw |-> <<>>, valid |-> FALSE,
      reply |-> ZeroClaudeResponse],
     HttpOutcome(StatusOK, <<"j", "s", "o", "n">>, TRUE,
                 Reply(<<Block(T_object)>>, 5, 19))}

InitConc ==
    /\ apiKey = <<"s", "k">>
    /\ fused \in FusionModes
    /\ pc = "start"
    /\ agent = NilPtr
    /\ routes = {}
    /\ bound = FALSE
    /\ exitCode = -1
    /\ reqs = [r \in Goroutines |-> Idle]
    /\ InitFuncs

NextConc ==
    \/ MainNewAgent
    \/ MainRegister
    \/ MainListen
    \/ MainListenFails
    \/ \E r \in Goroutines :
          \/ RootHandler(r)
          \/ HealthHandler(r)
          \/ InfoHandler(r)
          \/ ExecuteHandlerOn(r, ConcBodies)
          \/ ExecuteHandlerReturnOn(r, ConcOutcomes)
          \/ Close(r)

SpecConc == InitConc /\ [][NextConc]_vars

(***************************************************************************)
(* Properties                                                              *)
(***************************************************************************)

\* The requests executeHandler has answered.
Answered == {r \in Requests : reqs[r].st = "done" /\ reqs[r].path = "/execute"}

\* The requests executeHandler has answered after a call of agent.Execute.
Orchestrated == {r \in Answered : ~reqs[r].outcome.nil}

\* C1: every 405, 400 and 500 response of /execute has Content-Type
\* application/json and a JSON body.
C1_ErrorResponsesAreJson ==
    \A r \in Answered :
        reqs[r].resp.status \in {405, 400, 500} =>
            /\ reqs[r].resp.ctype = "application/json"
            /\ "json" \in DOMAIN reqs[r].resp

\* C2: a POST /execute whose body cannot be decoded is answered 400 with the
\* decode error message in the body, and the upstream client is never
\* called for it.
C2_UndecodableBodyIs400 ==
    \A r \in Requests :
        (/\ reqs[r].method = "POST"
         /\ reqs[r].path = "/execute"
         /\ reqs[r].body \in {BodyEmpty, BodyCut, BodyWrongType}) =>
            /\ reqs[r].calls = 0
            /\ reqs[r].st = "done"
            /\ reqs[r].resp.status = 400
            /\ Len(Decode(reqs[r].body).err) > 0
            /\ reqs[r].resp.text =
                 <<"Invalid request body: ">> \o Decode(reqs[r].body).err
                   \o <<"\n">>

C2_Witness ==
    \E r \in Requests :
        /\ reqs[r].st = "done"
        /\ reqs[r].method = "POST"
        /\ reqs[r].path = "/execute"
        /\ reqs[r].body = BodyCut
        /\ reqs[r].resp.status = 400

\* C3: when the upstream call fails (send or read failure, a status outside
\* 2xx, or a reply that does not decode), the response is 500 with the body
\* {result: null, metadata: {cost: 0, duration: 0}, error: <non-empty>} and
\* neither model nor tokensUsed.
C3_UpstreamFailureIs500 ==
    \A r \in Orchestrated :
        LET o == reqs[r].outcome.v
        IN  (\/ o.kind \in {"send", "read"}
             \/ o.kind = "http" /\ ~(o.status \in 200..299)
             \/ o.kind = "http" /\ ~o.valid) =>
                /\ reqs[r].resp.status = 500
                /\ reqs[r].resp.ctype = "application/json"
                /\ DOMAIN reqs[r].resp.json = {"result", "metadata", "error"}
                /\ reqs[r].resp.json.result = JNull
                /\ reqs[r].resp.json.metadata = [cost |-> 0, duration |-> 0]
                /\ Len(reqs[r].resp.json.error) > 0

C3_Witness ==
    \E r \in Orchestrated :
        /\ reqs[r].outcome.v.kind = "http"
        /\ reqs[r].outcome.v.status = 500
        /\ reqs[r].resp.status = 500

\* C4: when the upstream call succeeds with usage (i, o), the response is
\* 200 without an error member, tokensUsed is {input: i, output: o}, cost is
\* CalculateCost(i, o), model is the fixed model identifier and result is
\* parseResult of the first content block's text (of the empty text when
\* there is no block).
C4_SuccessResponse ==
    \A r \in Orchestrated :
        LET o == reqs[r].outcome.v
            i == o.reply.Usage.InputTokens
            u == o.reply.Usage.OutputTokens
            first == IF o.reply.Content = <<>> THEN <<>>
                     ELSE Head(o.reply.Content).Text
        IN  (o.kind = "http" /\ o.status = 200 /\ o.valid) =>
                /\ reqs[r].resp.status = 200
                /\ DOMAIN reqs[r].resp.json = {"result", "metadata"}
                /\ DOMAIN reqs[r].resp.json.metadata =
                     {"cost", "duration", "model", "tokensUsed"}
                /\ reqs[r].resp.json.metadata.tokensUsed =
                     [input |-> i, output |-> u]
                /\ reqs[r].resp.json.metadata.cost = CalculateCost(i, u, fused)
                /\ reqs[r].resp.json.metadata.model = "claude-sonnet-4-5-20250929"
                /\ reqs[r].resp.json.result = EncodeValue(parseResult(first))

C4_Witness ==
    \E r \in Orchestrated :
        /\ reqs[r].outcome.v.kind = "http"
        /\ reqs[r].outcome.v.status = 200
        /\ reqs[r].outcome.v.valid
        /\ Len(reqs[r].outcome.v.reply.Content) = 2
        /\ reqs[r].resp.status = 200
        /\ reqs[r].resp.json.metadata.tokensUsed = [input |-> 150, output |-> 300]

\* C5: every response of the orchestrated path (200 or 500) has exactly one
\* of a non-null result and an error.
C5_ExactlyOneOfResultAndError ==
    \A r \in Orchestrated :
        (reqs[r].resp.json.result # JNull)
            # ("error" \in DOMAIN reqs[r].resp.json)

\* C6: CalculateCost(i, o) is floor((3*i + 15*o) / 100) ten-thousandths of a
\* dollar, the exact cost truncated to 4 decimal places.
C6_CostIsExactCostTruncated ==
    cost # -1 => cost = (3 * tokens[1] + 15 * tokens[2]) \div 100

\* C7: parseResult returns a value for every text, and when the text it
\* tries to parse is not a JSON object it returns {text: t} for the
\* original text t.
C7_FallbackIsOriginalText ==
    parsed.done =>
        LET d == ParseDocument(parsed.attempt)
        IN  ~(d.ok /\ d.v.t = "obj") =>
                parsed.result =
                    JObj(<<[k |-> <<"t", "e", "x", "t">>, v |-> JStr(text)]>>)

\* C8: for a text that is itself a JSON object, parseResult returns the
\* object that parsing the text yields.
C8_BareObjectParsesToItself ==
    parsed.done =>
        LET d == ParseDocument(text)
        IN  (d.ok /\ d.v.t = "obj") => parsed.result = d.v

\* The first index from which sep occurs in t at or after from; 0 if none.
FirstAt(t, sep, from) ==
    IF \E i \in from..Len(t) : HasPrefixAt(t, i, sep)
    THEN CHOOSE i \in from..Len(t) :
            /\ HasPrefixAt(t, i, sep)
            /\ \A j \in from..(i - 1) : ~HasPrefixAt(t, j, sep)
    ELSE 0

\* The part of t that C9 names: [fenced, content]. With a JSON-marked fence
\* that has a fence marker after it, the content between the two; without a
\* JSON-marked fence but with two fence markers, the content between the
\* first two; with no fence marker or only one, t. A JSON-marked fence with
\* no marker after it is left to C16 (covered is FALSE).
Selection(t) ==
    LET j == FirstAt(t, JSONFENCE, 1)
        k == FirstAt(t, FENCE, j + Len(JSONFENCE))
        a == FirstAt(t, FENCE, 1)
        b == FirstAt(t, FENCE, a + Len(FENCE))
    IN  IF j # 0
        THEN IF k # 0
             THEN [covered |-> TRUE, fenced |-> TRUE,
                   content |-> SubSeq(t, j + Len(JSONFENCE), k - 1)]
             ELSE [covered |-> FALSE, fenced |-> TRUE, content |-> <<>>]
        ELSE IF a # 0 /\ b # 0
        THEN [covered |-> TRUE, fenced |-> TRUE,
              content |-> SubSeq(t, a + Len(FENCE), b - 1)]
        ELSE [covered |-> TRUE, fenced |-> FALSE, content |-> t]

SelectionCut(t) ==
    LET j == FirstAt(t, JSONFENCE, 1)
        from == j + Len(JSONFENCE)
        j2 == FirstAt(t, JSONFENCE, from)
        piece == IF j2 # 0 THEN SubSeq(t, from, j2 - 1)
                 ELSE SubSeq(t, from, Len(t))
        k == FirstAt(piece, FENCE, 1)
    IN  IF j = 0 THEN Selection(t)
        ELSE IF k # 0
        THEN [covered |-> TRUE, fenced |-> TRUE,
              content |-> SubSeq(piece, 1, k - 1)]
        ELSE IF j2 # 0
        THEN [covered |-> TRUE, fenced |-> TRUE, content |-> piece]
        ELSE [covered |-> FALSE, fenced |-> TRUE, content |-> <<>>]

C10_NoKeyNoServer ==
    /\ apiKey = <<>> =>
          /\ routes = {}
          /\ ~bound
          /\ \A r \in Requests : reqs[r].st = "idle"
          /\ pc \in {"start", "exited"}
          /\ pc = "exited" => exitCode > 0
    /\ \A r \in Requests : reqs[r].st # "idle" => ~agent.nil

C10_Witness ==
    /\ apiKey = <<>>
    /\ pc = "exited"
    /\ exitCode = 1
    /\ agent.nil

\* The patterns main registers.
RegisteredPaths == {"/", "/health", "/info", "/execute"}

\* C11: a request whose path is none of /, /health, /info and /execute is
\* not served by any of the four handlers: it gets no response of theirs,
\* and in particular not rootHandler's 200 {name, version, status}.
C11_OtherPathsAreNotServed ==
    \A r \in Requests :
        (reqs[r].st # "idle" /\ ~(reqs[r].path \in RegisteredPaths)) =>
            /\ reqs[r].resp # rootHandler
            /\ reqs[r].resp.status # StatusOK

\* The error CreateMessage makes of an upstream status and raw body.
StatusError(o) ==
    <<"Claude API error (", ToString(o.status), "): ">> \o o.raw

\* C12: CreateMessage returns the error carrying the status code and the raw
\* body exactly when the upstream answers with a status outside 2xx, and for
\* every 2xx answer with a well-formed JSON body it returns the decoded
\* reply and no error.
C12_ErrorExactlyForNon2xx ==
    \A r \in Orchestrated :
        LET o == reqs[r].outcome.v
            c == CreateMessage(o)
        IN  o.kind = "http" =>
                /\ (c.err = StatusError(o)) <=> ~(o.status \in 200..299)
                /\ (o.status \in 200..299 /\ o.valid) =>
                      /\ c.err = <<>>
                      /\ c.resp = o.reply
                      /\ reqs[r].resp.status = StatusOK

\* C13: the upstream API is called at most once for every inbound request,
\* also when the call fails or times out: exactly once for a POST /execute
\* with a decodable body, and not at all for an /execute request of another
\* method, which is answered 405.
C13_UpstreamCalledAtMostOnce ==
    \A r \in Requests :
        /\ reqs[r].calls <= 1
        /\ (/\ reqs[r].st # "idle"
            /\ reqs[r].path = "/execute"
            /\ reqs[r].method = "POST"
            /\ Decode(reqs[r].body).err = <<>>) => reqs[r].calls = 1
        /\ (/\ reqs[r].st # "idle"
            /\ reqs[r].path = "/execute"
            /\ reqs[r].method # "POST") =>
                /\ reqs[r].calls = 0
                /\ reqs[r].st = "done"
                /\ reqs[r].resp.status = StatusMethodNotAllowed

\* A POST /execute whose upstream call timed out has been answered after
\* one call.
C13_Witness ==
    \E r \in Orchestrated :
        /\ reqs[r].method = "POST"
        /\ reqs[r].outcome.v.kind = "send"
        /\ reqs[r].resp.status = StatusInternalServerError
        /\ reqs[r].calls = 1

\* The position of program point p in trace t; 0 when t does not pass it.
Pos(t, p) ==
    IF \E i \in DOMAIN t : t[i] = p
    THEN CHOOSE i \in DOMAIN t : t[i] = p
    ELSE 0

\* C14: in Execute the timer brackets the upstream call only: it is started
\* after the system prompt and the user message are built and immediately
\* before CreateMessage is invoked, and it is read as soon as CreateMessage
\* has returned, before parseResult.
C14_TimerBracketsUpstreamCallOnly ==
    \A r \in Requests :
        LET t == reqs[r].trace
        IN  /\ Pos(t, "CreateMessage") # 0 =>
                  /\ Pos(t, "buildSystemPrompt") < Pos(t, "time.Now")
                  /\ Pos(t, "buildUserMessage") < Pos(t, "time.Now")
                  /\ Pos(t, "time.Now") + 1 = Pos(t, "CreateMessage")
            /\ Pos(t, "time.Since") # 0 =>
                  /\ Pos(t, "time.Since") = Pos(t, "CreateMessage.return") + 1
                  /\ Pos(t, "time.Since") < Pos(t, "parseResult")

\* The /execute requests that have been answered, of any goroutine.
AnsweredConc ==
    {r \in DOMAIN reqs : reqs[r].st = "done" /\ reqs[r].path = "/execute"}

\* Process-wide state is what startup made it while requests are handled.
StartupStateKept ==
    (\E r \in DOMAIN reqs : reqs[r].st # "idle") =>
        /\ pc = "serving"
        /\ exitCode = -1
        /\ bound
        /\ routes = {<<"/", "rootHandler">>, <<"/health", "healthHandler">>,
                     <<"/info", "infoHandler">>,
                     <<"/execute", "executeHandler">>}
        /\ agent = NewGoAgent(apiKey).agent
        /\ agent.v.client.v =
             [apiKey |-> apiKey, model |-> "claude-sonnet-4-5-20250929",
              inputCostPerToken |-> PerMillion(3),
              outputCostPerToken |-> PerMillion(15)]

\* A step of a handler (a step that changes a request) writes no
\* process-wide state, and the agent is written only by main's first step.
HandlersWriteNoProcessState ==
    /\ reqs' # reqs => UNCHANGED mainVars
    /\ agent' # agent => pc = "start"
    /\ apiKey' = apiKey
    /\ fused' = fused

\* C15 as stated, for the responses: two answered /execute requests with
\* the same method, body and upstream outcome have the same response.
C15_ResponseIsFunctionOfBodyAndReply ==
    /\ StartupStateKept
    /\ \A r, q \in AnsweredConc :
          (/\ reqs[r].method = reqs[q].method
           /\ reqs[r].body = reqs[q].body
           /\ reqs[r].outcome = reqs[q].outcome) =>
              reqs[r].resp = reqs[q].resp

\* A response with the duration member of its metadata, if any, set to 0.
WithoutDuration(resp) ==
    IF "json" \in DOMAIN resp
    THEN IF "metadata" \in DOMAIN resp.json
         THEN [resp EXCEPT !.json.metadata.duration = 0]
         ELSE resp
    ELSE resp

\* What executeHandler answers to a request of the given method and body
\* whose upstream call, if made, ends with the given outcome, when no time
\* passes.
ResponseOf(method, body, outcome, fusion) ==
    IF method # "POST"
    THEN HttpError(<<"Method not allowed">>, StatusMethodNotAllowed)
    ELSE IF Len(Decoded[body].err) > 0
    THEN HttpError(<<"Invalid request body: ">> \o Decoded[body].err,
                   StatusBadRequest)
    ELSE ExecuteResponse(Executed[outcome.v, 0, fusion])

\* C15 as amended: under every interleaving of the requests handled
\* concurrently, no step of a handler writes process-wide state (the agent,
\* its client, API key, model and prices are what startup made them), and
\* each /execute response, its duration member set aside, is the function
\* ResponseOf of the request's own method, body and upstream outcome.
C15_RequestsAreIsolated ==
    /\ [](/\ StartupStateKept
          /\ \A r \in AnsweredConc :
                WithoutDuration(reqs[r].resp) =
                    ResponseOf(reqs[r].method, reqs[r].body, reqs[r].outcome,
                               fused))
    /\ [][HandlersWriteNoProcessState]_vars

\* Two requests are in flight at once: one has been answered 200 from its
\* own upstream reply while the other has been answered 500 after its own
\* upstream call timed out.
C15_Witness ==
    \E r, q \in AnsweredConc :
        /\ r # q
        /\ reqs[r].body = reqs[q].body
        /\ ~reqs[r].outcome.nil
        /\ ~reqs[q].outcome.nil
        /\ reqs[r].outcome.v.kind = "http"
        /\ reqs[r].resp.status = StatusOK
        /\ reqs[r].resp.json.metadata.duration = 1
        /\ reqs[q].outcome.v.kind = "send"
        /\ reqs[q].resp.status = StatusInternalServerError

\* t has an unterminated fence: a fence marker, JSON-marked or not, with no
\* fence marker after it.
Unterminated(t) ==
    LET a == FirstAt(t, FENCE, 1)
    IN  a # 0 /\ FirstAt(t, FENCE, a + Len(FENCE)) = 0

\* C16: for a text with an opening fence marker, JSON-marked or unmarked,
\* and no closing fence marker after it, parseResult tries to parse the
\* whole text, and not the text that follows the opening marker.
C16_UnterminatedFenceIsNoFence ==
    (parsed.done /\ Unterminated(text)) => parsed.attempt = text

====
